---- MODULE Spec2Model ----
(***************************************************************************)
(* demo/yuanjian.py: a multiprocessing batch driver with a persisted       *)
(* ledger of processed file names (processed_files.json).                  *)
(*                                                                         *)
(* A file name "<stem>.pdf" is modelled by its rank in Python's str order, *)
(* so that sorted() is the order of the integers.  The external analysis   *)
(* pipeline is opaque: each of its steps either returns or raises.         *)
(***************************************************************************)
EXTENDS Integers, Sequences, FiniteSets, TLC

\* ------------------------------------------------------------------ bounds
NumFiles == 3

\* ------------------------------------------------------- program constants
max_workers == 2
None == 0
Raised == -1

Files == 1..NumFiles
\* A pool with one process more than asked for.
OneWorkerMore == 1..(max_workers + 1)
Workers == 1..max_workers
NoTask == 0

\* The steps of process_single_pdf's try block, in program order: the
\* preparation and analysis (lines 38-61), then the six output writes.
Steps == <<"analyse", "layout", "spans", "md", "md_copy", "content_list", "middle">>
NumSteps == Len(Steps)
AllArtifacts == {Steps[i] : i \in 2..NumSteps}

\* ------------------------------------------------------------- the ledger
Absent == [kind |-> "absent", data |-> <<>>]
\* The file between open(..., "w"), which truncates it, and the end of
\* json.dump: no proper prefix of a JSON array is a JSON document.
Partial == [kind |-> "partial", data |-> <<>>]

Range(s) == {s[i] : i \in DOMAIN s}

RECURSIVE Insert(_, _)
Insert(x, s) ==
    IF s = <<>> THEN <<x>>
    ELSE IF x <= Head(s) THEN <<x>> \o s
    ELSE <<Head(s)>> \o Insert(x, Tail(s))

\* The list written as list() gave it.
unsorted(l) == l

RECURSIVE sorted(_)
sorted(l) == IF l = <<>> THEN <<>> ELSE Insert(Head(l), sorted(Tail(l)))

\* list(processed_set): the elements of the set, each once, in hash order.
list(S) == {l \in [1..Cardinality(S) -> S] : Range(l) = S}

json_dump(l) == [kind |-> "json", data |-> l]

\* The file json.dump(sorted(list(processed_set)), f) leaves when it returns.
Dumped(processed_set) == {json_dump(sorted(l)) : l \in list(processed_set)}

\* A load that never reads the file.
load_nothing(file) == [raised |-> FALSE, value |-> {}]

\* load_processed_files: [raised, value]
\* A load that takes a file it cannot parse for an empty ledger.
load_tolerant(file) ==
    [raised |-> FALSE, value |-> IF file.kind = "json" THEN Range(file.data) ELSE {}]

load_processed_files(file) ==
    IF file.kind = "absent" THEN [raised |-> FALSE, value |-> {}]
    ELSE IF file.kind = "json" THEN [raised |-> FALSE, value |-> Range(file.data)]
    ELSE [raised |-> TRUE, value |-> {}]

\* ------------------------------------------------------------- the worker
\* The steps at which the model lets a run of process_single_pdf raise (0: no
\* step raises): the analysis, with nothing written, and the content list,
\* after the markdown and its copy into markdowns/.
RaisePoints == {0, 1, 6}
\* Where a worker that is terminated can be: before any step or after any one.
CutPoints == {1, 6, NumSteps + 1}

\* process_single_pdf on file f when step raiseAt raises (0: no step raises).
\* written: the artifacts written before the raise; diag: the names printed.
WrittenBefore(k) == {Steps[i] : i \in 2..(k - 1)}

\* The files of one input after a call has written `written` over `old`.
\* dump_md (line 67) writes <stem>/<stem>.md anew, and a copy in markdowns/
\* that an earlier call left then holds the earlier markdown ("md_copy_old")
\* until copyfile (line 73) writes it again.
Overwrite(old, written) ==
    IF "md" \in written /\ "md_copy" \notin written
    THEN (old \ {"md_copy"}) \cup written
            \cup (IF {"md_copy", "md_copy_old"} \cap old # {} THEN {"md_copy_old"} ELSE {})
    ELSE IF "md_copy" \in written
    THEN (old \ {"md_copy_old"}) \cup written
    ELSE old \cup written

\* The try block ending after the analysis: a write that raises is not caught.
process_single_pdf_narrow_try(f, raiseAt) ==
    IF raiseAt = 0
    THEN [result |-> f, written |-> AllArtifacts, diag |-> {}]
    ELSE IF raiseAt = 1
    THEN [result |-> None, written |-> {}, diag |-> {f}]
    ELSE [result |-> Raised, written |-> WrittenBefore(raiseAt), diag |-> {}]

\* The exception handler missing: the exception leaves the function.
process_single_pdf_uncaught(f, raiseAt) ==
    IF raiseAt = 0
    THEN [result |-> f, written |-> AllArtifacts, diag |-> {}]
    ELSE [result |-> Raised, written |-> WrittenBefore(raiseAt), diag |-> {}]

\* The name returned after the handler, on both paths.
process_single_pdf_always_named(f, raiseAt) ==
    IF raiseAt = 0
    THEN [result |-> f, written |-> AllArtifacts, diag |-> {}]
    ELSE [result |-> f, written |-> WrittenBefore(raiseAt), diag |-> {f}]

\* The copy left out (line 72 finding no file at src_md_path).
process_single_pdf_no_copy(f, raiseAt) ==
    IF raiseAt = 0
    THEN [result |-> f, written |-> AllArtifacts \ {"md_copy"}, diag |-> {}]
    ELSE [result |-> None, written |-> WrittenBefore(raiseAt) \ {"md_copy"}, diag |-> {f}]

process_single_pdf(f, raiseAt) ==
    IF raiseAt = 0
    THEN [result |-> f, written |-> AllArtifacts, diag |-> {}]
    ELSE [result |-> None, written |-> WrittenBefore(raiseAt), diag |-> {f}]

\* -------------------------------------------------------------- the state
VARIABLES
    ledgerFile,       \* processed_files.json in the working directory
    outputs,          \* outputs[f]: the artifacts of f under the output root
    pc,               \* the controlling process
    all_pdf_paths,
    processed_files,
    task_args,
    success_files,
    pending,          \* tasks submitted to the pool and not yet taken
    running,          \* running[w]: the task worker w executes
    resultQ,          \* results of the pool, in completion order
    diag,             \* names in the failure diagnostics printed in this run
    returned,         \* history: what process_single_pdf returned in this run
    killedIn,         \* history: where the controlling process was when killed
    startFile,        \* history: the ledger file when this run loaded it
    saved,            \* history: the successes of this run whose save returned
    prev,             \* history: the previous run, while the next one starts
    rt,               \* the ledger round trip's input set and first file
    call,             \* the last call of process_single_pdf made on its own
    args,             \* the arguments batch() is called with
    fresh             \* history: the output root was empty when the run started

vars == <<ledgerFile, outputs, pc, all_pdf_paths, processed_files,
          task_args, success_files, pending, running, resultQ, diag, returned,
          killedIn, startFile, saved, prev, rt, call, args, fresh>>

runVars == <<all_pdf_paths, processed_files, task_args, success_files, startFile,
            args>>
poolVars == <<pending, running, resultQ>>
workVars == <<outputs, diag, returned>>
histVars == <<killedIn, saved, rt, call, fresh>>

NoReturn == [f \in Files |-> "none"]
NoRun == [end |-> "", all_pdf_paths |-> {}, task_args |-> {}, returned |-> NoReturn,
          saved |-> {}, killedIn |-> ""]
NoRT == [S |-> {}, first |-> Absent]
NoCall == [f |-> NoTask, raiseAt |-> 0, result |-> None]

\* Line 113: the directories the script calls batch() with, and others a
\* caller of batch() can name.
Dirs == {"yuanjian", "elsewhere"}
Roots == {"yuanjian-output", "elsewhere-output"}
MainArgs == [pdf_dir |-> "yuanjian", output_dir |-> "yuanjian-output"]

Init ==
    /\ ledgerFile = Absent
    /\ outputs = [f \in Files |-> {}]
    /\ pc = "Idle"
    /\ all_pdf_paths = {}
    /\ processed_files = {}
    /\ task_args = {}
    /\ success_files = <<>>
    /\ pending = {}
    /\ running = [w \in Workers |-> NoTask]
    /\ resultQ = <<>>
    /\ diag = {}
    /\ returned = NoReturn
    /\ killedIn = ""
    /\ startFile = Absent
    /\ saved = {}
    /\ prev = NoRun
    /\ rt = NoRT
    /\ call = NoCall
    /\ args = MainArgs
    /\ fresh = TRUE

Resting == {"Idle", "Done", "Aborted", "Killed"}
PoolAlive == {"Draining", "SaveOpen", "SaveDump"}
Active == {"Scanning", "Dispatching", "Draining", "SaveOpen", "SaveDump",
           "FinalSaveOpen", "FinalSaveDump"}

\* The ledger the runs before this one recorded: what load returned.
startLedger == load_processed_files(startFile).value

\* ------------------------------------------------------------- batch()
\* Lines 88-90: a new process calls batch(); the glob lists the directory,
\* which holds any set of *.pdf names by now.
Scan ==
    /\ pc \in Resting
    /\ pc' = "Scanning"
    /\ \E d \in SUBSET Files : all_pdf_paths' = d
    /\ prev' = [end |-> pc, all_pdf_paths |-> all_pdf_paths, task_args |-> task_args,
                returned |-> returned, saved |-> saved, killedIn |-> killedIn]
    /\ processed_files' = {}
    /\ task_args' = {}
    /\ success_files' = <<>>
    /\ startFile' = Absent
    /\ diag' = {}
    /\ returned' = NoReturn
    /\ killedIn' = ""
    /\ saved' = {}
    /\ fresh' = (\A f \in Files : outputs[f] = {})
    /\ UNCHANGED <<ledgerFile, outputs, poolVars, rt, call, args>>

\* Lines 91-98: load the ledger and keep the paths whose name is not in it.
\* json.load raises on a file that is no JSON document, and batch() ends.
\* The filter dropped: every path found is a task.
UnprocessedAll(paths, processed) == paths

\* A filter that also drops what failed in the run before.
UnprocessedNotFailed(paths, processed) ==
    {p \in paths : p \notin processed /\ prev.returned[p] # "fail"}

\* A filter that also keeps a path whose outputs are not all under the
\* output root.
UnprocessedOrMissing(paths, processed) ==
    {p \in paths : p \notin processed \/ outputs[p] # AllArtifacts}

Unprocessed(paths, processed) == {p \in paths : p \notin processed}

Load ==
    /\ pc = "Scanning"
    /\ LET r == load_processed_files(ledgerFile) IN
        IF r.raised
        THEN /\ pc' = "Aborted"
             /\ prev' = NoRun
             /\ UNCHANGED <<processed_files, task_args>>
        ELSE /\ pc' = "Dispatching"
             /\ processed_files' = r.value
             /\ task_args' = Unprocessed(all_pdf_paths, r.value)
             /\ UNCHANGED prev
    /\ startFile' = ledgerFile
    /\ UNCHANGED <<ledgerFile, all_pdf_paths, success_files, args, poolVars,
                   workVars, histVars>>

\* Lines 100-101: the pool starts and imap_unordered submits every task.
Dispatch ==
    /\ pc = "Dispatching"
    /\ pending' = task_args
    /\ pc' = "Draining"
    /\ prev' = NoRun
    /\ UNCHANGED <<ledgerFile, runVars, running, resultQ, workVars, histVars>>

\* A free worker takes a task.  Tasks are handed out in task_args order, which
\* is the directory order of the glob: any order.
WorkerStart(w) ==
    /\ pc \in PoolAlive
    /\ running[w] = NoTask
    /\ \E f \in pending :
        /\ pending' = pending \ {f}
        /\ running' = [running EXCEPT ![w] = f]
    /\ UNCHANGED <<ledgerFile, pc, runVars, resultQ, workVars, histVars, prev>>

Outcome(r) ==
    IF r.result = None THEN "fail" ELSE IF r.result = Raised THEN "raise" ELSE "ok"

\* A worker that records its own success in the ledger file.
WorkerFinishSaves(w) ==
    /\ pc \in PoolAlive
    /\ running[w] # NoTask
    /\ \E raiseAt \in RaisePoints :
        LET f == running[w]
            r == process_single_pdf(f, raiseAt) IN
        /\ outputs' = [outputs EXCEPT ![f] = Overwrite(@, r.written)]
        /\ diag' = diag \cup r.diag
        /\ returned' = [returned EXCEPT ![f] = Outcome(r)]
        /\ resultQ' = Append(resultQ, r.result)
        /\ IF r.result = f
           THEN ledgerFile' \in Dumped(load_tolerant(ledgerFile).value \cup {f})
           ELSE UNCHANGED ledgerFile
    /\ running' = [running EXCEPT ![w] = NoTask]
    /\ UNCHANGED <<pc, runVars, pending, histVars, prev>>

\* Lines 35-81: worker w runs process_single_pdf to its return.
WorkerFinish(w) ==
    /\ pc \in PoolAlive
    /\ running[w] # NoTask
    /\ \E raiseAt \in RaisePoints :
        LET f == running[w]
            r == process_single_pdf(f, raiseAt) IN
        /\ outputs' = [outputs EXCEPT ![f] = Overwrite(@, r.written)]
        /\ diag' = diag \cup r.diag
        /\ returned' = [returned EXCEPT ![f] = Outcome(r)]
        /\ resultQ' = Append(resultQ, r.result)
    /\ running' = [running EXCEPT ![w] = NoTask]
    /\ UNCHANGED <<ledgerFile, pc, runVars, pending, histVars, prev>>

\* The pool's workers are terminated with a task in progress: each has
\* written the artifacts of the steps it got through.
Busy == {w \in Workers : running[w] # NoTask}

CutOutputs(cut) ==
    [f \in Files |->
        IF \E w \in Busy : running[w] = f
        THEN Overwrite(outputs[f],
                       WrittenBefore(cut[CHOOSE w \in Busy : running[w] = f]))
        ELSE outputs[f]]

Terminate ==
    /\ \E cut \in [Busy -> CutPoints] : outputs' = CutOutputs(cut)
    /\ pending' = {}
    /\ running' = [w \in Workers |-> NoTask]
    /\ resultQ' = <<>>

\* The loop without line 106: the ledger is saved at the end of the run only.
CollectSaveAtEnd ==
    /\ pc = "Draining"
    /\ resultQ # <<>>
    /\ Head(resultQ) # Raised
    /\ resultQ' = Tail(resultQ)
    /\ processed_files' = processed_files \cup (IF Head(resultQ) # None THEN {Head(resultQ)} ELSE {})
    /\ success_files' = IF Head(resultQ) # None THEN Append(success_files, Head(resultQ))
                        ELSE success_files
    /\ UNCHANGED <<ledgerFile, pc, all_pdf_paths, task_args, startFile, args,
                   pending, running, workVars, histVars, prev>>

\* A loop that takes names only and leaves the failure marker in the queue.
CollectNamesOnly ==
    /\ pc = "Draining"
    /\ resultQ # <<>>
    /\ Head(resultQ) \in Files
    /\ resultQ' = Tail(resultQ)
    /\ processed_files' = processed_files \cup {Head(resultQ)}
    /\ success_files' = Append(success_files, Head(resultQ))
    /\ pc' = "SaveOpen"
    /\ UNCHANGED <<ledgerFile, all_pdf_paths, task_args, startFile, args, pending,
                   running, workVars, histVars, prev>>

\* Lines 101-104: the loop takes the next result.  A success is added to the
\* set and the list, and save_processed_files is called (line 106).  An
\* exception of the task is raised again here and leaves the with block.
Collect ==
    /\ pc = "Draining"
    /\ resultQ # <<>>
    /\ LET result == Head(resultQ) IN
        IF result = Raised
        THEN /\ pc' = "Aborted"
             /\ Terminate
             /\ UNCHANGED <<processed_files, success_files>>
        ELSE /\ resultQ' = Tail(resultQ)
             /\ UNCHANGED <<pending, running, outputs>>
             /\ IF result # None
                THEN /\ processed_files' = processed_files \cup {result}
                     /\ success_files' = Append(success_files, result)
                     /\ pc' = "SaveOpen"
                ELSE /\ pc' = "Draining"
                     /\ UNCHANGED <<processed_files, success_files>>
    /\ UNCHANGED <<ledgerFile, all_pdf_paths, task_args, startFile, args,
                   diag, returned, histVars, prev>>

\* A loop end at which the controlling process removes from markdowns/ the
\* copies of the tasks that failed.
LoopEndCleans ==
    /\ pc = "Draining"
    /\ pending = {}
    /\ Busy = {}
    /\ resultQ = <<>>
    /\ pc' = "FinalSaveOpen"
    /\ outputs' = [f \in Files |->
                    IF returned[f] = "fail"
                    THEN outputs[f] \ {"md_copy", "md_copy_old"} ELSE outputs[f]]
    /\ UNCHANGED <<ledgerFile, runVars, poolVars, diag, returned, histVars, prev>>

\* Lines 107-109: every result is consumed, the pool exits, the final save.
LoopEnd ==
    /\ pc = "Draining"
    /\ pending = {}
    /\ Busy = {}
    /\ resultQ = <<>>
    /\ pc' = "FinalSaveOpen"
    /\ UNCHANGED <<ledgerFile, runVars, poolVars, workVars, histVars, prev>>

\* Line 31: open(PROCESSED_LOG_PATH, "w") truncates the file.
SaveOpen ==
    /\ pc \in {"SaveOpen", "FinalSaveOpen"}
    /\ ledgerFile' = Partial
    /\ pc' = IF pc = "SaveOpen" THEN "SaveDump" ELSE "FinalSaveDump"
    /\ UNCHANGED <<runVars, poolVars, workVars, histVars, prev>>

\* A save that keeps only the names still found in the input directory.
SaveDumpPresentOnly ==
    /\ pc \in {"SaveDump", "FinalSaveDump"}
    /\ ledgerFile' \in Dumped(processed_files \cap all_pdf_paths)
    /\ pc' = IF pc = "SaveDump" THEN "Draining" ELSE "Done"
    /\ saved' = Range(success_files)
    /\ UNCHANGED <<runVars, poolVars, workVars, killedIn, rt, call, fresh, prev>>

\* Line 32: json.dump(sorted(list(processed_set))) and the close of the file.
SaveDump ==
    /\ pc \in {"SaveDump", "FinalSaveDump"}
    /\ ledgerFile' \in Dumped(processed_files)
    /\ pc' = IF pc = "SaveDump" THEN "Draining" ELSE "Done"
    /\ saved' = Range(success_files)
    /\ UNCHANGED <<runVars, poolVars, workVars, killedIn, rt, call, fresh, prev>>

\* The controlling process and its pool are killed.
Kill ==
    /\ pc \in Active
    /\ pc' = "Killed"
    /\ killedIn' = pc
    /\ Terminate
    /\ prev' = NoRun
    /\ UNCHANGED <<ledgerFile, runVars, diag, returned, saved, rt, call, fresh>>

Next ==
    \/ Scan
    \/ Load
    \/ Dispatch
    \/ \E w \in Workers : WorkerStart(w)
    \/ \E w \in Workers : WorkerFinish(w)
    \/ Collect
    \/ LoopEnd
    \/ SaveOpen
    \/ SaveDump
    \/ Kill

Spec == Init /\ [][Next]_vars

\* ------------------------------------------------ runs that are not killed
\* The controlling process, once started, goes on; the pool hands a waiting
\* task to a free worker; every call of process_single_pdf returns.
Runner == Load \/ Dispatch \/ Collect \/ LoopEnd \/ SaveOpen \/ SaveDump

FairNext ==
    \/ Scan
    \/ Runner
    \/ \E w \in Workers : WorkerStart(w)
    \/ \E w \in Workers : WorkerFinish(w)

FairSpec ==
    /\ Init
    /\ [][FairNext]_vars
    /\ WF_vars(Runner)
    /\ WF_vars(\E w \in Workers : WorkerStart(w))
    /\ WF_vars(\E w \in Workers : WorkerFinish(w))

\* ------------------------------------------- process_single_pdf on its own
\* One call of process_single_pdf after another, on any file, with any step
\* of the try block raising.
CallWorker ==
    /\ \E f \in Files, raiseAt \in 0..NumSteps :
        LET r == process_single_pdf(f, raiseAt) IN
        /\ outputs' = [outputs EXCEPT ![f] = Overwrite(@, r.written)]
        /\ diag' = r.diag
        /\ returned' = [returned EXCEPT ![f] = Outcome(r)]
        /\ call' = [f |-> f, raiseAt |-> raiseAt, result |-> r.result]
    /\ UNCHANGED <<ledgerFile, pc, runVars, poolVars, killedIn, saved, prev, rt,
                   fresh>>

WorkerSpec == Init /\ [][CallWorker]_vars

\* ------------------------------------------------- the ledger on its own
\* save(load(save(S))) for any set S, over any file found at the path.
MaxArray == NumFiles
PriorFiles ==
    {Absent, Partial}
        \cup {json_dump(l) : l \in UNION {[1..n -> Files] : n \in 0..MaxArray}}

RTInit ==
    /\ ledgerFile \in PriorFiles
    /\ processed_files \in SUBSET Files
    /\ rt = [S |-> processed_files, first |-> Absent]
    /\ pc = "rt_start"
    /\ outputs = [f \in Files |-> {}]
    /\ all_pdf_paths = {}
    /\ task_args = {}
    /\ success_files = <<>>
    /\ pending = {}
    /\ running = [w \in Workers |-> NoTask]
    /\ resultQ = <<>>
    /\ diag = {}
    /\ returned = NoReturn
    /\ killedIn = ""
    /\ startFile = Absent
    /\ saved = {}
    /\ prev = NoRun
    /\ call = NoCall
    /\ args = MainArgs
    /\ fresh = TRUE

\* Lines 27-32: save_processed_files(processed_files), to its return.
RTSave ==
    /\ pc \in {"rt_start", "rt_loaded"}
    /\ ledgerFile' \in Dumped(processed_files)
    /\ rt' = IF pc = "rt_start" THEN [rt EXCEPT !.first = ledgerFile'] ELSE rt
    /\ pc' = IF pc = "rt_start" THEN "rt_saved" ELSE "rt_done"
    /\ UNCHANGED <<outputs, runVars, poolVars, diag, returned, killedIn, saved,
                   prev, call, fresh>>

\* Lines 17-24: processed_files = load_processed_files().
RTLoad ==
    /\ pc = "rt_saved"
    /\ ~load_processed_files(ledgerFile).raised
    /\ processed_files' = load_processed_files(ledgerFile).value
    /\ pc' = "rt_loaded"
    /\ UNCHANGED <<ledgerFile, outputs, all_pdf_paths, task_args, success_files,
                   startFile, args, poolVars, diag, returned, killedIn, saved,
                   prev, rt, call, fresh>>

RoundTripSpec == RTInit /\ [][RTSave \/ RTLoad]_vars

\* ------------------------------------------- the skip decision on its own
\* batch() called with any input directory and output root, in a working
\* directory where runs of the script (line 113) have left a ledger of the
\* files they processed into the script's output root; lines 88-95.
SkipInit ==
    /\ ledgerFile \in {Absent} \cup UNION {Dumped(S) : S \in SUBSET Files}
    /\ args \in [pdf_dir : Dirs, output_dir : Roots]
    /\ outputs = [f \in Files |->
                    IF args.output_dir = MainArgs.output_dir
                            /\ f \in Range(ledgerFile.data)
                    THEN AllArtifacts ELSE {}]
    /\ fresh = (args.output_dir # MainArgs.output_dir \/ ledgerFile.data = <<>>)
    /\ pc = "Idle"
    /\ all_pdf_paths = {}
    /\ processed_files = {}
    /\ task_args = {}
    /\ success_files = <<>>
    /\ pending = {}
    /\ running = [w \in Workers |-> NoTask]
    /\ resultQ = <<>>
    /\ diag = {}
    /\ returned = NoReturn
    /\ killedIn = ""
    /\ startFile = Absent
    /\ saved = {}
    /\ prev = NoRun
    /\ rt = NoRT
    /\ call = NoCall

SkipSpec == SkipInit /\ [][Scan \/ Load]_vars

TypeOK ==
    /\ all_pdf_paths \subseteq Files
    /\ ledgerFile.kind \in {"absent", "partial", "json"}
    /\ pc \in Resting \cup Active
    /\ processed_files \subseteq Files
    /\ task_args \subseteq all_pdf_paths
    /\ pending \subseteq task_args
    /\ \A i \in DOMAIN resultQ : resultQ[i] \in Files \cup {None}

\* ------------------------------------------------------------ properties
\* The names a reader of the ledger file finds in it.
LedgerNames == IF ledgerFile.kind = "json" THEN Range(ledgerFile.data) ELSE {}
Succeeded == {f \in Files : returned[f] = "ok"}
Failed == {f \in Files : returned[f] = "fail"}
\* The run has loaded the ledger.
Loaded ==
    \/ pc \in Active \ {"Scanning"}
    \/ pc = "Done"
    \/ pc = "Killed" /\ killedIn # "Scanning"
\* The run starting follows a run that finished / was killed after its load,
\* and finds the input directory as that run found it.
AfterDone ==
    pc = "Dispatching" /\ prev.end = "Done" /\ prev.all_pdf_paths = all_pdf_paths
AfterKill ==
    /\ pc = "Dispatching" /\ prev.end = "Killed" /\ prev.killedIn # "Scanning"
    /\ prev.all_pdf_paths = all_pdf_paths

\* C1 as claimed: the second of two runs over an unchanged input directory
\* dispatches no task.
C1_SecondRunDispatchesNothing == AfterDone => task_args = {}

\* C1, amended: the second of two runs over an unchanged input directory
\* dispatches exactly the files whose task returned the failure marker in the
\* first run, so none when no task failed and never a file that succeeded; and
\* a run that dispatches no task leaves the ledger file it loaded as it was.
C1_Idempotence ==
    /\ AfterDone => task_args = {f \in prev.task_args : prev.returned[f] = "fail"}
    /\ (pc = "Done" /\ task_args = {} /\ startFile.kind = "json")
            => ledgerFile = startFile

C1_Witness ==
    /\ AfterDone
    /\ Cardinality(prev.task_args) >= 2
    /\ \A f \in prev.task_args : prev.returned[f] = "ok"
    /\ task_args = {}

\* C2 as claimed: after a kill of a run in which K of the N dispatched tasks
\* had completed, the next run over the same inputs dispatches at most N-K.
C2_AtMostNMinusCompleted ==
    AfterKill =>
        Cardinality(task_args) <= Cardinality(prev.task_args)
            - Cardinality({f \in prev.task_args : prev.returned[f] = "ok"})

\* C2, amended: K counts the successes the killed run had collected and saved.
\* A kill outside a ledger write leaves the ledger file holding what the run
\* loaded plus those K names; the next run over the same inputs dispatches
\* exactly the input files not in the persisted ledger, which are the N-K
\* tasks of the killed run that were not saved; and a run that finishes
\* leaves in the ledger what it loaded plus the names of its successes.  A
\* kill inside a ledger write leaves the file truncated, and a run that finds
\* it so ends in its load with nothing dispatched.
C2_Resumability ==
    /\ (pc = "Killed" /\ killedIn # "Scanning") =>
        IF killedIn \in {"SaveDump", "FinalSaveDump"}
        THEN ledgerFile = Partial
        ELSE /\ ~load_processed_files(ledgerFile).raised
             /\ load_processed_files(ledgerFile).value = startLedger \cup saved
    /\ pc = "Aborted" => startFile = Partial /\ task_args = {} /\ Succeeded = {}
    /\ AfterKill =>
        /\ task_args = all_pdf_paths \ LedgerNames
        /\ task_args = prev.task_args \ prev.saved
        /\ Cardinality(task_args)
                = Cardinality(prev.task_args) - Cardinality(prev.saved)
    /\ pc = "Done" =>
        /\ ledgerFile.kind = "json"
        /\ LedgerNames = startLedger \cup Succeeded

C2_Witness ==
    /\ AfterKill
    /\ prev.saved # {}
    /\ task_args # {}
    /\ \E f \in task_args : prev.returned[f] = "ok"

\* A step of a run that is under way.
RunStep ==
    \/ Load
    \/ Dispatch
    \/ \E w \in Workers : WorkerStart(w)
    \/ \E w \in Workers : WorkerFinish(w)
    \/ Collect
    \/ LoopEnd
    \/ SaveOpen
    \/ SaveDump

\* C3: a task that fails never ends the batch (only a ledger that cannot be
\* loaded does) and never blocks it; a run that started with an empty ledger
\* and in which exactly one task failed ends with every other task executed
\* and collected, the ledger holding exactly the other names, and a
\* diagnostic naming the file that failed.
C3_Isolation ==
    /\ pc = "Aborted" => startFile.kind = "partial"
    /\ pc \in Active => ENABLED RunStep
    /\ (pc = "Done" /\ startLedger = {} /\ Cardinality(Failed) = 1) =>
        /\ \A f \in task_args \ Failed : returned[f] = "ok" /\ f \in processed_files
        /\ ledgerFile.kind = "json"
        /\ LedgerNames = all_pdf_paths \ Failed
        /\ Cardinality(LedgerNames) = Cardinality(all_pdf_paths) - 1
        /\ diag = Failed

C3_Witness ==
    /\ pc = "Done"
    /\ startLedger = {}
    /\ Cardinality(all_pdf_paths) = NumFiles
    /\ Cardinality(Failed) = 1
    /\ Cardinality(LedgerNames) = NumFiles - 1

\* C4: a name is in the ledger, in memory or on disk, only if every output
\* of the file has been written, and it enters the ledger in a run only when
\* process_single_pdf returned it in that run.
C4_LedgerImpliesOutputs ==
    /\ \A f \in LedgerNames \cup processed_files : outputs[f] = AllArtifacts
    /\ processed_files \subseteq startLedger \cup Succeeded
    /\ Loaded => LedgerNames \subseteq startLedger \cup Succeeded

C4_Witness ==
    /\ pc = "Done"
    /\ \E f \in LedgerNames : returned[f] = "ok"
    /\ \E g \in Failed : outputs[g] # {} /\ g \notin LedgerNames

\* C5: when the controlling process waits for the next result, the ledger
\* file is complete and holds what the run loaded plus every success consumed
\* so far, as does the set in memory.
C5_SavedBeforeNextResult ==
    pc = "Draining" =>
        /\ ~load_processed_files(ledgerFile).raised
        /\ load_processed_files(ledgerFile).value
                = startLedger \cup Range(success_files)
        /\ processed_files = startLedger \cup Range(success_files)
        /\ success_files # <<>> => ledgerFile.kind = "json"

C5_Witness ==
    /\ pc = "Draining"
    /\ Len(success_files) >= 2
    /\ resultQ # <<>>
    /\ LedgerNames = startLedger \cup Range(success_files)

\* C6 as claimed: after a kill at any point of a run, every success whose
\* handling (lines 102-106) the controlling process had finished is in the
\* persisted ledger, and the next run does not dispatch it again.
C6_KillLosesInFlightOnly ==
    /\ pc = "Killed" => saved \subseteq LedgerNames
    /\ AfterKill => task_args \cap prev.saved = {}

\* C7: a task that returned the failure marker is not handed to a worker
\* again in its run and its name is in no ledger, in memory or on disk; the
\* next run that finds the file dispatches it again.
C7_FailureDropped ==
    /\ \A f \in Failed :
        /\ f \notin pending
        /\ \A w \in Workers : running[w] # f
        /\ f \notin processed_files
        /\ f \notin LedgerNames
    /\ pc = "Dispatching" =>
        \A f \in all_pdf_paths : prev.returned[f] = "fail" => f \in task_args

C7_Witness ==
    /\ pc = "Dispatching"
    /\ prev.end = "Done"
    /\ \E f \in task_args : prev.returned[f] = "fail"
    /\ \E g \in all_pdf_paths : prev.returned[g] = "ok" /\ g \notin task_args

\* C9: no step of a run removes a name from the set in memory, every
\* completed write of the ledger file holds at least what the run loaded and
\* what it had saved before, and the file a finished run leaves holds at
\* least what the run loaded, whether or not the names are still inputs.
C9_NoEntryRemoved ==
    [][/\ pc' # "Scanning" => processed_files \subseteq processed_files'
       /\ (ledgerFile'.kind = "json" /\ ledgerFile' # ledgerFile)
            => startLedger \cup saved \subseteq Range(ledgerFile'.data)
       /\ pc' = "Done" => startLedger \subseteq Range(ledgerFile'.data)]_vars

C9_Witness ==
    /\ pc = "Done"
    /\ saved # {}
    /\ \E f \in startLedger : f \in LedgerNames /\ f \notin all_pdf_paths

\* C8: whichever step of the try block raises, process_single_pdf raises
\* nothing to its caller: it prints a diagnostic naming the file and returns
\* None; it returns the file's name only when no step raised, and then every
\* output has been written.
C8_WorkerNeverRaises ==
    call.f # NoTask =>
        /\ call.result # Raised
        /\ call.raiseAt # 0 => call.result = None /\ diag = {call.f}
        /\ call.result = call.f =>
            call.raiseAt = 0 /\ diag = {} /\ outputs[call.f] = AllArtifacts
        /\ call.result \in {None, call.f}

C8_Witness ==
    /\ call.f # NoTask
    /\ call.raiseAt = NumSteps
    /\ call.result = None
    /\ diag = {call.f}
    /\ "content_list" \in outputs[call.f]
    /\ "middle" \notin outputs[call.f]

IsAscending(l) == \A i, j \in DOMAIN l : i < j => l[i] < l[j]

\* C10: whatever file was at the path, the file a save leaves is a JSON array
\* in ascending order without duplicates that holds exactly the set saved;
\* loading it gives the set back, and saving what was loaded leaves the same
\* file again.
C10_LedgerRoundTrip ==
    /\ pc \in {"rt_saved", "rt_loaded", "rt_done"} =>
        /\ ledgerFile.kind = "json"
        /\ IsAscending(ledgerFile.data)
        /\ Range(ledgerFile.data) = rt.S
    /\ pc = "rt_loaded" => processed_files = rt.S
    /\ pc = "rt_done" =>
        /\ ledgerFile = rt.first
        /\ load_processed_files(ledgerFile).value = rt.S

C10_Witness ==
    /\ pc = "rt_done"
    /\ Cardinality(rt.S) = NumFiles
    /\ ledgerFile = rt.first
    /\ Len(ledgerFile.data) = NumFiles

\* The tasks of the run that have been handed to a worker.
Started == {f \in Files : returned[f] # "none" \/ \E w \in Workers : running[w] = f}

\* C11: a run that finds no ledger file loads the empty set and makes a task
\* of every input file, and when it finishes every one of them has been
\* executed; a run whose load has returned did not find a file it cannot
\* parse; and a run that finds such a file ends in its load, with no task
\* made or handed to a worker and with the ledger file left as it was found.
C11_LoadOutcomes ==
    /\ (Loaded /\ startFile = Absent) =>
        /\ startLedger = {}
        /\ task_args = all_pdf_paths
        /\ pc \in PoolAlive => pending \cup Started = all_pdf_paths
        /\ pc = "Done" => \A f \in all_pdf_paths : returned[f] \in {"ok", "fail"}
    /\ Loaded => startFile.kind # "partial"
    /\ pc = "Aborted" =>
        /\ startFile = Partial
        /\ ledgerFile = startFile
        /\ task_args = {}
        /\ pending = {}
        /\ Started = {}
        /\ processed_files = {}

C11_Witness ==
    /\ pc = "Aborted"
    /\ all_pdf_paths = Files
    /\ ledgerFile = Partial
    /\ \E f \in Files : outputs[f] = AllArtifacts

Saving == {"SaveOpen", "SaveDump", "FinalSaveOpen", "FinalSaveDump"}

\* C12: within a run, a step that changes the ledger, in memory or on disk,
\* is a step of the controlling process in which no worker takes part; the
\* file changes only inside one call of save_processed_files, which the
\* controlling process runs to its end before it does anything else; and the
\* write that completes holds what the run loaded and every success
\* collected, whatever the workers did in the meantime.
C12_SingleLedgerWriter ==
    [][/\ (ledgerFile' # ledgerFile \/ (processed_files' # processed_files /\ pc' # "Scanning"))
            => /\ pc' # pc
               /\ UNCHANGED <<pending, running, outputs, returned>>
               /\ Len(resultQ') <= Len(resultQ)
       /\ ledgerFile' # ledgerFile => pc \in Saving
       /\ (pc \in Saving /\ pc' # "Killed") => pc' \in Saving \cup {"Draining", "Done"}
       /\ (pc \in {"SaveDump", "FinalSaveDump"} /\ pc' \in {"Draining", "Done"})
            => /\ ledgerFile'.kind = "json"
               /\ Range(ledgerFile'.data) = startLedger \cup Range(success_files)
               /\ processed_files' = startLedger \cup Range(success_files)]_vars

C12_Witness ==
    /\ pc = "SaveDump"
    /\ ledgerFile = Partial
    /\ Busy # {}
    /\ resultQ # <<>>
    /\ startLedger \cup Range(success_files) # {}

\* The file of each input in <output_root>/markdowns.
Collection == [f \in Files |-> outputs[f] \cap {"md_copy", "md_copy_old"}]

\* C13 as claimed: no worker writes into the markdowns directory: a step
\* that changes a file in it is a step in which no worker takes part.
C13_OnlyControllerWritesCollection ==
    [][Collection' # Collection => running' = running]_vars

\* C13, amended: the files in the markdowns directory are written by the
\* workers and never by the controlling process: the file of an input changes
\* only in a step in which the one worker executing that input's task ends
\* its call (or is terminated in it), and no other worker is executing the
\* same input; the ledger file changes only in steps of the controlling
\* process in which no worker takes part.
C13_WorkersWriteOwnCopy ==
    [][/\ \A f \in Files :
            Collection'[f] # Collection[f] =>
                \E w \in Workers :
                    /\ running[w] = f
                    /\ running'[w] = NoTask
                    /\ \A v \in Workers \ {w} : running[v] # f
       /\ running' = running => Collection' = Collection
       /\ ledgerFile' # ledgerFile => running' = running /\ Collection' = Collection]_vars

C13_Witness ==
    /\ pc = "Draining"
    /\ fresh
    /\ \E f \in Succeeded : Collection[f] = {"md_copy"}
    /\ \E g \in Failed : Collection[g] = {"md_copy"}
    /\ Busy # {}

Occurrences(seq, x) == Cardinality({i \in DOMAIN seq : seq[i] = x})
RunningTasks == {running[w] : w \in Busy}
Returned == {f \in Files : returned[f] # "none"}

\* C14: the tasks of a run are the input files not in the ledger it loaded,
\* one each; while the pool lives every task is in exactly one of: waiting,
\* executed by exactly one worker, returned; a worker takes a task only when
\* it executes none, and the tasks being executed are never more than
\* max_workers; the end of a call adds exactly one result, the file's name or
\* the failure marker, and nothing else adds a result; each success is
\* collected once, and when the loop has ended every task has returned.
C14_PoolDiscipline ==
    /\ [](/\ Loaded => task_args = all_pdf_paths \ startLedger
          /\ pc \in PoolAlive =>
                /\ pending \cup RunningTasks \cup Returned = task_args
                /\ pending \cap RunningTasks = {}
                /\ pending \cap Returned = {}
                /\ RunningTasks \cap Returned = {}
                /\ \A f \in Succeeded :
                        Occurrences(resultQ, f) + Occurrences(success_files, f) = 1
                /\ Occurrences(resultQ, None) <= Cardinality(Failed)
          /\ \A v, w \in Busy : running[v] = running[w] => v = w
          /\ Cardinality(RunningTasks) <= max_workers
          /\ pc \in {"FinalSaveOpen", "FinalSaveDump", "Done"} =>
                /\ Returned = task_args
                /\ Range(success_files) = Succeeded
                /\ Len(success_files) = Cardinality(Succeeded))
    /\ [][/\ \A w \in Workers :
               (running'[w] # running[w] /\ running'[w] # NoTask) =>
                   /\ running[w] = NoTask
                   /\ running'[w] \in pending
                   /\ pending' = pending \ {running'[w]}
          /\ \A w \in Workers :
               (running[w] # NoTask /\ running'[w] = NoTask /\ pc' = pc) =>
                   /\ resultQ' \in {Append(resultQ, running[w]), Append(resultQ, None)}
                   /\ returned[running[w]] = "none"
                   /\ returned'[running[w]] # "none"
          /\ Len(resultQ') > Len(resultQ) =>
               /\ Len(resultQ') = Len(resultQ) + 1
               /\ Cardinality(RunningTasks') = Cardinality(RunningTasks) - 1
          /\ \A f \in Files :
               (returned[f] # "none" /\ pc' # "Scanning") => returned'[f] = returned[f]]_vars

C14_Witness ==
    /\ pc \in PoolAlive
    /\ Cardinality(RunningTasks) = max_workers
    /\ pending # {}

\* C15: once the call for an input has returned its name, and whatever calls
\* for other inputs follow, the input's directory holds its markdown, layout,
\* spans, content list and middle files, and markdowns/ holds a copy of the
\* markdown that is the copy of the markdown now in the input's directory,
\* not one an earlier call left.
C15_OutputCompleteness ==
    \A f \in Files :
        returned[f] = "ok" =>
            /\ {"md", "layout", "spans", "content_list", "middle"} \subseteq outputs[f]
            /\ "md_copy" \in outputs[f]
            /\ "md_copy_old" \notin outputs[f]

C15_Witness ==
    /\ \E f \in Files :
        /\ returned[f] = "ok"
        /\ call.f # f
        /\ outputs[f] = AllArtifacts
    /\ \E g \in Files :
        /\ returned[g] = "fail"
        /\ "md_copy_old" \in outputs[g]
    /\ \E h \in Files : returned[h] = "ok" /\ call.f = h /\ diag = {}

\* C16: when no run is killed and every call of process_single_pdf returns,
\* a run that has started reaches Done, in whatever order the tasks complete,
\* and ends in no other way; it gets there only from Scanning through
\* Dispatching and then Draining (with the saves of the loop and the final
\* save); at Done every task has returned, as a success or
\* as a failure, every success has been collected once, and the ledger file
\* holds exactly what the run loaded and the names of its successes, in
\* ascending order whatever the order of completion.
C16_Termination ==
    /\ (pc = "Scanning") ~> (pc = "Done")
    /\ [](pc \notin {"Aborted", "Killed"})
    /\ [](pc = "Done" =>
            /\ Returned = task_args
            /\ \A f \in task_args : returned[f] \in {"ok", "fail"}
            /\ pending = {} /\ Busy = {} /\ resultQ = <<>>
            /\ Range(success_files) = Succeeded
            /\ Len(success_files) = Cardinality(Succeeded)
            /\ ledgerFile = json_dump(sorted(ledgerFile.data))
            /\ LedgerNames = startLedger \cup Succeeded
            /\ Len(ledgerFile.data) = Cardinality(startLedger \cup Succeeded))
    /\ [][pc' # pc =>
            <<pc, pc'>> \in {<<"Idle", "Scanning">>, <<"Done", "Scanning">>,
                             <<"Scanning", "Dispatching">>,
                             <<"Dispatching", "Draining">>,
                             <<"Draining", "SaveOpen">>, <<"SaveOpen", "SaveDump">>,
                             <<"SaveDump", "Draining">>,
                             <<"Draining", "FinalSaveOpen">>,
                             <<"FinalSaveOpen", "FinalSaveDump">>,
                             <<"FinalSaveDump", "Done">>}]_vars

C16_Witness ==
    /\ pc = "Done"
    /\ Len(success_files) >= 2
    /\ ~IsAscending(success_files)
    /\ Failed # {}
    /\ LedgerNames = Succeeded

\* C17 as claimed: at every point of a run the ledger file is absent or a
\* complete JSON array that load_processed_files reads, and after a kill of
\* the controlling process the file can be loaded and holds at least what
\* the run loaded.
C17_LedgerFileComplete ==
    /\ ledgerFile.kind \in {"absent", "json"}
    /\ ~load_processed_files(ledgerFile).raised
    /\ pc = "Killed" => startLedger \subseteq load_processed_files(ledgerFile).value

\* C18 as claimed: in and after a run that started from an empty output
\* root, a task that returned the failure marker has no file in markdowns/,
\* and when the run is done markdowns/ holds a file only for the inputs
\* whose task returned success in the run.
C18_CollectionHoldsSuccessesOnly ==
    /\ fresh => \A f \in Failed : Collection[f] = {}
    /\ (fresh /\ pc = "Done") => \A f \in Files : Collection[f] # {} => returned[f] = "ok"

\* C19: the tasks batch() makes are the paths found whose name is not in the
\* ledger file of the working directory, whatever the input directory and
\* output root it is called with and whatever lies under the output root: a
\* path whose name is in the ledger is never made a task, and every other
\* path is.
C19_SkipByNameOnly ==
    pc = "Dispatching" =>
        /\ processed_files = LedgerNames
        /\ task_args = {p \in all_pdf_paths : p \notin LedgerNames}
        /\ \A p \in all_pdf_paths \cap LedgerNames : p \notin task_args
        /\ \A p \in all_pdf_paths \ LedgerNames : p \in task_args

C19_Witness ==
    /\ pc = "Dispatching"
    /\ args.pdf_dir # MainArgs.pdf_dir
    /\ args.output_dir # MainArgs.output_dir
    /\ \E p \in all_pdf_paths \cap LedgerNames : outputs[p] = {} /\ p \notin task_args
    /\ task_args # {}
====
